---- MODULE Spec2Model ----
(***************************************************************************)
(* Personal Task Organizer: the App component of                            *)
(* src/todo_frontend/src/App.js as a state machine.                         *)
(*                                                                         *)
(* Strings are sequences of one-character strings, so that trim,           *)
(* JSON.stringify and JSON.parse are computed character by character.      *)
(* A React state cell is the value the last render closed over (tasks)     *)
(* plus the update queued by setTasks (pending); passive effects run       *)
(* after the render that scheduled them (effects).                         *)
(***************************************************************************)
EXTENDS Integers, Sequences, FiniteSets, TLC

VARIABLES
    tasks,      \* useState([]) line 27: the collection the last render saw
    pending,    \* the update queued by setTasks, <<>> when there is none
    input,      \* useState('') line 30
    editingId,  \* useState(null) line 31
    editInput,  \* useState('') line 32
    store,      \* window.localStorage item 'todo_tasks': <<>> absent, <<s>> the string s
    effects,    \* passive effects the last commit scheduled, in source order
    error,      \* the exception that escaped an effect, "none" when there is none
    now,        \* Date.now()
    expected,   \* history: the operations so far applied one after another
    filter,     \* useState('all') line 28
    search      \* useState('') line 29

vars == <<tasks, pending, input, editingId, editInput, store, effects, error, now,
          expected, filter, search>>

----------------------------------------------------------------------------
(* Bounds *)

MaxTasks == 2       \* create is not offered beyond this many tasks
MaxNow == 11        \* the clock stops ticking here

(* editingId = null; Date.now() is never 0, and line 125 treats 0 like null *)
Null == 0

----------------------------------------------------------------------------
(* Characters and strings *)

QUOTE == "\""
BSLASH == "\\"
TAB == "\t"

Whitespace == {" ", TAB}

RECURSIVE DropLeading(_)
DropLeading(s) ==
    IF s # <<>> /\ Head(s) \in Whitespace THEN DropLeading(Tail(s)) ELSE s

RECURSIVE DropTrailing(_)
DropTrailing(s) ==
    IF s # <<>> /\ s[Len(s)] \in Whitespace
    THEN DropTrailing(SubSeq(s, 1, Len(s) - 1))
    ELSE s

(* String.prototype.trim *)
trim(s) == DropTrailing(DropLeading(s))

(* What the user can type into an input box *)
RawInputs ==
    { <<" ", " ">>,
      <<" ", "a", TAB>>,
      <<"A", TAB, QUOTE, BSLASH>> }

----------------------------------------------------------------------------
(* JSON.stringify of a task array (line 44) *)

Digit(d) ==
    CASE d = 0 -> "0" [] d = 1 -> "1" [] d = 2 -> "2" [] d = 3 -> "3"
      [] d = 4 -> "4" [] d = 5 -> "5" [] d = 6 -> "6" [] d = 7 -> "7"
      [] d = 8 -> "8" [] d = 9 -> "9"

RECURSIVE Digits(_)
Digits(n) ==
    IF n < 10 THEN <<Digit(n)>> ELSE Digits(n \div 10) \o <<Digit(n % 10)>>

(* Variant: the backslash is not escaped *)
EscapeCharNoBackslash(c) ==
    IF c = QUOTE THEN <<BSLASH, QUOTE>>
    ELSE IF c = TAB THEN <<BSLASH, "t">>
    ELSE <<c>>

EscapeChar(c) ==
    IF c = QUOTE THEN <<BSLASH, QUOTE>>
    ELSE IF c = BSLASH THEN <<BSLASH, BSLASH>>
    ELSE IF c = TAB THEN <<BSLASH, "t">>
    ELSE <<c>>

RECURSIVE Escape(_)
Escape(s) ==
    IF s = <<>> THEN <<>>
    ELSE IF Len(s) = 1 THEN EscapeChar(s[1])
    ELSE LET half == Len(s) \div 2
         IN  Escape(SubSeq(s, 1, half)) \o Escape(SubSeq(s, half + 1, Len(s)))

QuoteJSON(s) == <<QUOTE>> \o Escape(s) \o <<QUOTE>>

KeyId == <<QUOTE, "i", "d", QUOTE, ":">>
KeyText == <<QUOTE, "t", "e", "x", "t", QUOTE, ":">>
KeyCompleted == <<QUOTE, "c", "o", "m", "p", "l", "e", "t", "e", "d", QUOTE, ":">>
LitTrue == <<"t", "r", "u", "e">>
LitFalse == <<"f", "a", "l", "s", "e">>

StringifyTask(t) ==
    <<"{">> \o KeyId \o Digits(t.id)
        \o <<",">> \o KeyText \o QuoteJSON(t.text)
        \o <<",">> \o KeyCompleted \o (IF t.completed THEN LitTrue ELSE LitFalse)
        \o <<"}">>

RECURSIVE StringifyElements(_)
StringifyElements(ts) ==
    IF ts = <<>> THEN <<>>
    ELSE IF Len(ts) = 1 THEN StringifyTask(ts[1])
    ELSE StringifyTask(Head(ts)) \o <<",">> \o StringifyElements(Tail(ts))

JSONstringify(ts) == <<"[">> \o StringifyElements(ts) \o <<"]">>

----------------------------------------------------------------------------
(* JSON.parse (line 39), for texts that are arrays of task objects; every   *)
(* other text is reported as a SyntaxError.  A result is                    *)
(* [ok, value, next]: next is the index after the parsed piece.             *)

Fail == [ok |-> FALSE, value |-> <<>>, next |-> 0]

DigitValue(c) ==
    CASE c = "0" -> 0 [] c = "1" -> 1 [] c = "2" -> 2 [] c = "3" -> 3
      [] c = "4" -> 4 [] c = "5" -> 5 [] c = "6" -> 6 [] c = "7" -> 7
      [] c = "8" -> 8 [] c = "9" -> 9

DigitChars == {"0", "1", "2", "3", "4", "5", "6", "7", "8", "9"}

(* the index after lit when lit stands at index i of s, else 0 *)
Expect(s, i, lit) ==
    IF i >= 1 /\ i + Len(lit) - 1 <= Len(s) /\ SubSeq(s, i, i + Len(lit) - 1) = lit
    THEN i + Len(lit)
    ELSE 0

RECURSIVE ParseDigits(_, _, _)
ParseDigits(s, i, acc) ==
    IF i <= Len(s) /\ s[i] \in DigitChars
    THEN ParseDigits(s, i + 1, 10 * acc + DigitValue(s[i]))
    ELSE [ok |-> TRUE, value |-> acc, next |-> i]

ParseNumber(s, i) ==
    IF i >= 1 /\ i <= Len(s) /\ s[i] \in DigitChars
    THEN ParseDigits(s, i, 0)
    ELSE Fail

RECURSIVE ParseChars(_, _, _)
ParseChars(s, i, acc) ==
    LET j == CHOOSE j \in i..(Len(s) + 1) :
                 /\ j > Len(s) \/ s[j] = QUOTE \/ s[j] = BSLASH \/ s[j] = TAB
                 /\ \A k \in i..(j - 1) : s[k] # QUOTE /\ s[k] # BSLASH /\ s[k] # TAB
        run == acc \o SubSeq(s, i, j - 1)
    IN  IF j > Len(s) THEN Fail
        ELSE IF s[j] = QUOTE THEN [ok |-> TRUE, value |-> run, next |-> j + 1]
        ELSE IF s[j] = TAB THEN Fail
        ELSE IF j + 1 > Len(s) THEN Fail
        ELSE IF s[j + 1] \in {QUOTE, BSLASH}
             THEN ParseChars(s, j + 2, Append(run, s[j + 1]))
        ELSE IF s[j + 1] = "t"
             THEN ParseChars(s, j + 2, Append(run, TAB))
        ELSE Fail

ParseString(s, i) ==
    IF i >= 1 /\ i <= Len(s) /\ s[i] = QUOTE THEN ParseChars(s, i + 1, <<>>) ELSE Fail

ParseBool(s, i) ==
    IF Expect(s, i, LitTrue) # 0
    THEN [ok |-> TRUE, value |-> TRUE, next |-> Expect(s, i, LitTrue)]
    ELSE IF Expect(s, i, LitFalse) # 0
    THEN [ok |-> TRUE, value |-> FALSE, next |-> Expect(s, i, LitFalse)]
    ELSE Fail

ParseTask(s, i) ==
    LET a == Expect(s, i, <<"{">> \o KeyId)
        n == ParseNumber(s, a)
        b == Expect(s, n.next, <<",">> \o KeyText)
        t == ParseString(s, b)
        c == Expect(s, t.next, <<",">> \o KeyCompleted)
        d == ParseBool(s, c)
        e == Expect(s, d.next, <<"}">>)
    IN  IF a # 0 /\ n.ok /\ b # 0 /\ t.ok /\ c # 0 /\ d.ok /\ e # 0
        THEN [ok |-> TRUE,
              value |-> [id |-> n.value, text |-> t.value, completed |-> d.value],
              next |-> e]
        ELSE Fail

RECURSIVE ParseElements(_, _, _)
ParseElements(s, i, acc) ==
    LET t == ParseTask(s, i)
    IN  IF ~t.ok THEN Fail
        ELSE IF Expect(s, t.next, <<",">>) # 0
             THEN ParseElements(s, t.next + 1, Append(acc, t.value))
        ELSE IF Expect(s, t.next, <<"]">>) = Len(s) + 1
             THEN [ok |-> TRUE, value |-> Append(acc, t.value), next |-> Len(s) + 1]
        ELSE Fail

JSONparse(s) ==
    IF s = <<"[", "]">> THEN [ok |-> TRUE, value |-> <<>>, next |-> 3]
    ELSE IF Expect(s, 1, <<"[">>) # 0 THEN ParseElements(s, 2, <<>>)
    ELSE Fail

----------------------------------------------------------------------------
(* The durable store *)

Absent == <<>>

(* window.localStorage.getItem('todo_tasks') being truthy: present and not '' *)
Truthy(st) == st # Absent /\ st[1] # <<>>

(* Collections an earlier session has saved *)
SavedCollections ==
    { <<>>,
      << [id |-> 9, text |-> <<"a">>, completed |-> FALSE] >>,
      << [id |-> 9, text |-> <<"A", TAB, QUOTE, BSLASH>>, completed |-> TRUE] >> }

(* Values that are no JSON text *)
Unparsable ==
    { <<"o", "o", "p", "s">>,
      <<"[", "{">> \o KeyId \o <<"1">> }

InitStores ==
    {Absent, << <<>> >>}
        \cup { <<s>> : s \in Unparsable }
        \cup { <<JSONstringify(c)>> : c \in SavedCollections }

----------------------------------------------------------------------------
(* React state and scheduling *)

(* The current value of the tasks state cell: the queued update when there  *)
(* is one, else the value the last render saw.                              *)
Collection == IF pending # <<>> THEN pending[1] ELSE tasks

(* An event handler runs only when the previous event's render and effects  *)
(* are done and the component is still mounted.                             *)
Idle == pending = <<>> /\ effects = <<>> /\ error = "none"

(* ids the handlers are called with: those of saved and of new tasks *)
IdDomain == 9..MaxNow

----------------------------------------------------------------------------
(* The operations of spec section 4.1, applied to a collection c: what      *)
(* `expected` follows.                                                      *)

SeqCreate(c, raw, id) ==
    IF trim(raw) = <<>> THEN c
    ELSE Append(c, [id |-> id, text |-> trim(raw), completed |-> FALSE])

SeqRename(c, id, raw) ==
    IF trim(raw) = <<>> THEN c
    ELSE [i \in 1..Len(c) |->
            IF c[i].id = id THEN [c[i] EXCEPT !.text = trim(raw)] ELSE c[i]]

SeqToggle(c, id) ==
    [i \in 1..Len(c) |->
        IF c[i].id = id THEN [c[i] EXCEPT !.completed = ~c[i].completed] ELSE c[i]]

SeqDelete(c, id) == SelectSeq(c, LAMBDA t : t.id # id)

----------------------------------------------------------------------------
(* Effects and render *)

(* line 44: the value setItem is given *)
persist(ts) == <<JSONstringify(ts)>>

(* lines 38-39: what the load effect reads out of the store; ok is FALSE    *)
(* when JSON.parse throws, and without a truthy item the state stays []     *)
load(st) ==
    IF Truthy(st) THEN JSONparse(st[1]) ELSE [ok |-> TRUE, value |-> <<>>, next |-> 0]

(* lines 37-40 *)
RunLoadEffect ==
    /\ error = "none"
    /\ effects # <<>> /\ Head(effects) = "load"
    /\ IF Truthy(store)
       THEN IF load(store).ok
            THEN /\ pending' = <<load(store).value>>
                 /\ expected' = load(store).value
                 /\ effects' = Tail(effects)
                 /\ error' = error
            ELSE /\ error' = "SyntaxError"
                 /\ effects' = <<>>
                 /\ UNCHANGED <<pending, expected>>
       ELSE /\ effects' = Tail(effects)
            /\ UNCHANGED <<pending, expected, error>>
    /\ UNCHANGED <<tasks, input, editingId, editInput, store, now>>
    /\ UNCHANGED <<filter, search>>

(* lines 43-45, setItem storing the value *)
RunPersistEffect ==
    /\ error = "none"
    /\ effects # <<>> /\ Head(effects) = "persist"
    /\ store' = persist(tasks)
    /\ effects' = Tail(effects)
    /\ UNCHANGED <<tasks, pending, input, editingId, editInput, error, now, expected>>
    /\ UNCHANGED <<filter, search>>

(* lines 43-45, setItem throwing (the quota is exceeded): the exception     *)
(* escapes the effect                                                       *)
FailPersistEffect ==
    /\ error = "none"
    /\ effects # <<>> /\ Head(effects) = "persist"
    /\ error' = "QuotaExceededError"
    /\ effects' = <<>>
    /\ UNCHANGED <<tasks, pending, input, editingId, editInput, store, now, expected>>
    /\ UNCHANGED <<filter, search>>

(* Variant: the persist effect has the dependency array [], so a render    *)
(* after the first schedules nothing                                        *)
RenderNoEffect ==
    /\ error = "none"
    /\ effects = <<>>
    /\ pending # <<>>
    /\ tasks' = pending[1]
    /\ pending' = <<>>
    /\ effects' = <<>>
    /\ UNCHANGED <<input, editingId, editInput, store, error, now, expected>>
    /\ UNCHANGED <<filter, search>>

(* React renders with the queued state; the new array is a new reference,   *)
(* so the effect with dependency [tasks] (line 45) is scheduled.            *)
Render ==
    /\ error = "none"
    /\ effects = <<>>
    /\ pending # <<>>
    /\ tasks' = pending[1]
    /\ pending' = <<>>
    /\ effects' = <<"persist">>
    /\ UNCHANGED <<input, editingId, editInput, store, error, now, expected>>
    /\ UNCHANGED <<filter, search>>

(* The page is loaded again: a new App mounts over the same store (25-45) *)
Reload ==
    /\ tasks' = <<>>
    /\ pending' = <<>>
    /\ input' = <<>>
    /\ editingId' = Null
    /\ editInput' = <<>>
    /\ effects' = <<"load", "persist">>
    /\ error' = "none"
    /\ expected' = <<>>
    /\ filter' = "all"
    /\ search' = <<>>
    /\ UNCHANGED <<store, now>>

Tick ==
    /\ now < MaxNow
    /\ now' = now + 1
    /\ UNCHANGED <<tasks, pending, input, editingId, editInput, store, effects, error, expected>>
    /\ UNCHANGED <<filter, search>>

----------------------------------------------------------------------------
(* Event handlers *)

(* Variant: s.length === 0, the trim forgotten *)
IsBlankNoTrim(s) == Len(s) = 0

(* s.trim().length === 0, lines 52 and 72 *)
IsBlank(s) == Len(trim(s)) = 0

(* Variant: text: input, the trim forgotten *)
AddedTasksUntrimmed(ts, inp, t) ==
    ts \o << [id |-> t, text |-> inp, completed |-> FALSE] >>

(* Variant: [{ ... }, ...tasks], the new task put first *)
AddedTasksPrepended(ts, inp, t) ==
    << [id |-> t, text |-> trim(inp), completed |-> FALSE] >> \o ts

(* lines 53-56: [...tasks, { id: Date.now(), text: input.trim(), completed: false }] *)
AddedTasks(ts, inp, t) ==
    ts \o << [id |-> t, text |-> trim(inp), completed |-> FALSE] >>

(* Variant: the task is rebuilt without the spread, so completed is reset *)
UpdatedTasksResetCompleted(ts, eid, ei) ==
    [i \in 1..Len(ts) |->
        IF ts[i].id = eid
        THEN [id |-> ts[i].id, text |-> trim(ei), completed |-> FALSE]
        ELSE ts[i]]

(* lines 77-79: tasks.map(t => t.id === editingId ? { ...t, text } : t) *)
UpdatedTasks(ts, eid, ei) ==
    [i \in 1..Len(ts) |->
        IF ts[i].id = eid THEN [ts[i] EXCEPT !.text = trim(ei)] ELSE ts[i]]

(* Variant: splice(findIndex(...), 1): without a match the index is -1 and   *)
(* the last task is removed                                                 *)
RemainingTasksSplice(ts, id) ==
    IF \E i \in 1..Len(ts) : ts[i].id = id
    THEN SelectSeq(ts, LAMBDA t : t.id # id)
    ELSE SubSeq(ts, 1, Len(ts) - 1)

(* line 86: tasks.filter(t => t.id !== id) *)
RemainingTasks(ts, id) == SelectSeq(ts, LAMBDA t : t.id # id)

(* Variant: the id test is dropped, every task is flipped *)
ToggledTasksAll(ts, id) ==
    [i \in 1..Len(ts) |-> [ts[i] EXCEPT !.completed = ~ts[i].completed]]

(* Variant: completed: true instead of !t.completed *)
ToggledTasksSetTrue(ts, id) ==
    [i \in 1..Len(ts) |->
        IF ts[i].id = id THEN [ts[i] EXCEPT !.completed = TRUE] ELSE ts[i]]

(* lines 95-97: tasks.map(t => t.id === id ? { ...t, completed: !t.completed } : t) *)
ToggledTasks(ts, id) ==
    [i \in 1..Len(ts) |->
        IF ts[i].id = id THEN [ts[i] EXCEPT !.completed = ~ts[i].completed] ELSE ts[i]]

(* line 64: tasks.find(t => t.id === id) as the index of the first match, 0 if none *)
FindIndex(ts, id) ==
    IF \E i \in 1..Len(ts) : ts[i].id = id
    THEN CHOOSE i \in 1..Len(ts) :
            /\ ts[i].id = id
            /\ \A j \in 1..(i - 1) : ts[j].id # id
    ELSE 0

(* line 155: onChange of the add input *)
(* maxLength of the add input (line 153) and of the edit input (line 249) *)
MaxLength == 120

(* Variant: the inputs carry no maxLength *)
ValueUnbounded(typed) == typed

(* What an input with maxLength holds after the user typed `typed` into    *)
(* it: the element takes no character beyond its maxLength                  *)
Value(typed) ==
    IF Len(typed) > MaxLength THEN SubSeq(typed, 1, MaxLength) ELSE typed

onChangeInput(s) ==
    /\ Idle
    /\ input' = Value(s)
    /\ UNCHANGED <<tasks, pending, editingId, editInput, store, effects, error, now, expected>>
    /\ UNCHANGED <<filter, search>>

(* line 250: onChange of the edit input, which exists while an edit is open *)
onChangeEditInput(s) ==
    /\ Idle
    /\ editingId # Null
    /\ editInput' = Value(s)
    /\ UNCHANGED <<tasks, pending, input, editingId, store, effects, error, now, expected>>
    /\ UNCHANGED <<filter, search>>

(* Variant: the early return of line 52 is missing *)
handleAddTaskNoReturn ==
    /\ Idle
    /\ Len(tasks) < MaxTasks
    /\ pending' = <<AddedTasks(tasks, input, now)>>
    /\ input' = <<>>
    /\ expected' = SeqCreate(expected, input, now)
    /\ UNCHANGED <<tasks, editingId, editInput, store, effects, error, now>>
    /\ UNCHANGED <<filter, search>>

(* lines 50-59 *)
handleAddTask ==
    /\ Idle
    /\ IF IsBlank(input)
       THEN UNCHANGED <<pending, input>>
       ELSE /\ Len(tasks) < MaxTasks
            /\ pending' = <<AddedTasks(tasks, input, now)>>
            /\ input' = <<>>
    /\ expected' = SeqCreate(expected, input, now)
    /\ UNCHANGED <<tasks, editingId, editInput, store, effects, error, now>>
    /\ UNCHANGED <<filter, search>>

(* lines 62-67 *)
handleEditTask(id) ==
    /\ Idle
    /\ editingId' = id
    /\ editInput' = IF FindIndex(tasks, id) # 0 THEN tasks[FindIndex(tasks, id)].text ELSE <<>>
    /\ UNCHANGED <<tasks, pending, input, store, effects, error, now, expected>>
    /\ UNCHANGED <<filter, search>>

(* Variant: an empty edit removes the task instead of cancelling *)
handleUpdateTaskDeletes ==
    /\ Idle
    /\ IF IsBlank(editInput)
       THEN pending' = <<RemainingTasks(tasks, editingId)>>
       ELSE pending' = <<UpdatedTasks(tasks, editingId, editInput)>>
    /\ editingId' = Null
    /\ editInput' = <<>>
    /\ expected' = SeqRename(expected, editingId, editInput)
    /\ UNCHANGED <<tasks, input, store, effects, error, now>>
    /\ UNCHANGED <<filter, search>>

(* lines 70-82 *)
handleUpdateTask ==
    /\ Idle
    /\ IF IsBlank(editInput)
       THEN pending' = pending
       ELSE pending' = <<UpdatedTasks(tasks, editingId, editInput)>>
    /\ editingId' = Null
    /\ editInput' = <<>>
    /\ expected' = SeqRename(expected, editingId, editInput)
    /\ UNCHANGED <<tasks, input, store, effects, error, now>>
    /\ UNCHANGED <<filter, search>>

(* lines 85-91 *)
(* Variant: the delete leaves the edit session alone (lines 87-90 missing) *)
handleDeleteTaskKeepsEdit(id) ==
    /\ Idle
    /\ pending' = <<RemainingTasks(tasks, id)>>
    /\ UNCHANGED <<editingId, editInput>>
    /\ expected' = SeqDelete(expected, id)
    /\ UNCHANGED <<tasks, input, store, effects, error, now>>
    /\ UNCHANGED <<filter, search>>

handleDeleteTask(id) ==
    /\ Idle
    /\ pending' = <<RemainingTasks(tasks, id)>>
    /\ IF editingId = id
       THEN editingId' = Null /\ editInput' = <<>>
       ELSE UNCHANGED <<editingId, editInput>>
    /\ expected' = SeqDelete(expected, id)
    /\ UNCHANGED <<tasks, input, store, effects, error, now>>
    /\ UNCHANGED <<filter, search>>

(* lines 94-98 *)
handleToggleComplete(id) ==
    /\ Idle
    /\ pending' = <<ToggledTasks(tasks, id)>>
    /\ expected' = SeqToggle(expected, id)
    /\ UNCHANGED <<tasks, input, editingId, editInput, store, effects, error, now>>
    /\ UNCHANGED <<filter, search>>

(* lines 124-134: Escape while an edit is open *)
handleKey ==
    /\ Idle
    /\ editingId # Null
    /\ editingId' = Null
    /\ editInput' = <<>>
    /\ UNCHANGED <<tasks, pending, input, store, effects, error, now, expected>>
    /\ UNCHANGED <<filter, search>>

(* lines 101-103 *)
handleFilterChange(newFilter) ==
    /\ Idle
    /\ filter' = newFilter
    /\ UNCHANGED <<tasks, pending, input, editingId, editInput, store, effects, error, now,
                   expected, search>>

(* lines 106-108; the search box has maxLength 60 (line 204) *)
handleSearchChange(s) ==
    /\ Idle
    /\ search' = s
    /\ UNCHANGED <<tasks, pending, input, editingId, editInput, store, effects, error, now,
                   expected, filter>>

----------------------------------------------------------------------------
(* The visible list, lines 111-121 *)

(* String.prototype.toLowerCase *)
LowerChar(c) == IF c = "A" THEN "a" ELSE c

toLowerCase(s) == [k \in 1..Len(s) |-> LowerChar(s[k])]

(* String.prototype.includes: the first position from `from` on where      *)
(* needle stands in hay                                                     *)
RECURSIVE IncludesFrom(_, _, _)
IncludesFrom(hay, needle, from) ==
    IF from + Len(needle) - 1 > Len(hay) THEN FALSE
    ELSE IF SubSeq(hay, from, from + Len(needle) - 1) = needle THEN TRUE
    ELSE IncludesFrom(hay, needle, from + 1)

includes(hay, needle) == IncludesFrom(hay, needle, 1)

Filters == {"all", "active", "completed"}

(* Variant: the text is not lower-cased, the match is case-sensitive *)
SearchedTasksCaseSensitive(list, s) ==
    IF Len(trim(s)) > 0
    THEN SelectSeq(list, LAMBDA t : includes(t.text, toLowerCase(trim(s))))
    ELSE list

(* lines 115-119 *)
SearchedTasks(list, s) ==
    IF Len(trim(s)) > 0
    THEN SelectSeq(list, LAMBDA t : includes(toLowerCase(t.text), toLowerCase(trim(s))))
    ELSE list

(* Variant: the 'completed' branch is missing, the mode shows everything *)
ModeTasksNoCompleted(ts, f) ==
    IF f = "active" THEN SelectSeq(ts, LAMBDA t : ~t.completed) ELSE ts

(* lines 112-114 *)
ModeTasks(ts, f) ==
    LET list == IF f = "active" THEN SelectSeq(ts, LAMBDA t : ~t.completed) ELSE ts
    IN  IF f = "completed" THEN SelectSeq(list, LAMBDA t : t.completed) ELSE list

(* lines 111-121 with tasks, filter and search given *)
visible(ts, f, s) == SearchedTasks(ModeTasks(ts, f), s)

(* lines 111-121 *)
filteredTasks == visible(tasks, filter, search)

----------------------------------------------------------------------------
(* Specification *)

Init ==
    /\ tasks = <<>>
    /\ pending = <<>>
    /\ input = <<>>
    /\ editingId = Null
    /\ editInput = <<>>
    /\ store \in InitStores
    /\ effects = <<"load", "persist">>
    /\ error = "none"
    /\ now = 10
    /\ expected = <<>>
    /\ filter = "all"
    /\ search = <<>>

Next ==
    \/ RunLoadEffect
    \/ RunPersistEffect
    \/ Render
    \/ Reload
    \/ Tick
    \/ \E s \in RawInputs : onChangeInput(s)
    \/ \E s \in RawInputs : onChangeEditInput(s)
    \/ handleAddTask
    \/ \E id \in IdDomain : handleEditTask(id)
    \/ handleUpdateTask
    \/ \E id \in IdDomain : handleDeleteTask(id)
    \/ \E id \in IdDomain : handleToggleComplete(id)
    \/ handleKey

Spec == Init /\ [][Next]_vars

(* The visible list over the collections a session can hold: the filter     *)
(* buttons (lines 168-196), the search box (lines 199-208) and the          *)
(* checkbox of a row (line 228)                                             *)
ViewIds == 9..10

ViewTexts == { <<"a">>, <<"A", TAB, QUOTE, BSLASH>>, <<"b", "A">> }

ViewTask == [id : ViewIds, text : ViewTexts, completed : BOOLEAN]

ViewCollections ==
    { c \in UNION { [1..n -> ViewTask] : n \in 0..MaxTasks } :
        \A i \in 1..(Len(c) - 1) : c[i].id <= c[i + 1].id }

SearchInputs ==
    { <<>>, <<" ">>, <<" ", "A", TAB>>, <<"b", "a">>, <<TAB, QUOTE>> }

InitView ==
    /\ tasks \in ViewCollections
    /\ pending = <<>>
    /\ input = <<>>
    /\ editingId = Null
    /\ editInput = <<>>
    /\ store = persist(tasks)
    /\ effects = <<>>
    /\ error = "none"
    /\ now = 10
    /\ expected = tasks
    /\ filter = "all"
    /\ search = <<>>

NextView ==
    \/ \E f \in Filters : handleFilterChange(f)
    \/ \E s \in SearchInputs : handleSearchChange(s)
    \/ \E id \in ViewIds : handleToggleComplete(id)
    \/ Render
    \/ RunPersistEffect

SpecView == InitView /\ [][NextView]_vars

(* The same program with a user who types long texts; the checkboxes,     *)
(* which leave every text alone, stay untouched                            *)
Long(n) == [k \in 1..n |-> "a"]

(* One character too many; and blanks around a text whose last character   *)
(* is the one too many                                                      *)
LongInputs ==
    { <<"b">> \o Long(MaxLength),
      <<" ">> \o Long(MaxLength - 2) \o <<" ", "b">> }

(* What a session that typed these left in the store *)
LongStores ==
    { Absent,
      persist(<< [id |-> 9, text |-> <<"b">> \o Long(MaxLength - 1), completed |-> FALSE] >>) }

InitLength ==
    /\ tasks = <<>>
    /\ pending = <<>>
    /\ input = <<>>
    /\ editingId = Null
    /\ editInput = <<>>
    /\ store \in LongStores
    /\ effects = <<"load", "persist">>
    /\ error = "none"
    /\ now = 10
    /\ expected = <<>>
    /\ filter = "all"
    /\ search = <<>>

NextLength ==
    \/ RunLoadEffect
    \/ RunPersistEffect
    \/ Render
    \/ Reload
    \/ Tick
    \/ \E s \in LongInputs : onChangeInput(s)
    \/ \E s \in LongInputs : onChangeEditInput(s)
    \/ handleAddTask
    \/ \E id \in IdDomain : handleEditTask(id)
    \/ handleUpdateTask
    \/ \E id \in IdDomain : handleDeleteTask(id)
    \/ handleKey

SpecLength == InitLength /\ [][NextLength]_vars

(* The same program with edits opened the only way the screen offers:      *)
(* the Edit button (line 288) of a row of the visible list that is not     *)
(* being edited (line 239)                                                  *)
onClickEdit ==
    \E i \in 1..Len(filteredTasks) :
        /\ filteredTasks[i].id # editingId
        /\ handleEditTask(filteredTasks[i].id)

SearchInputsUI == { <<>>, <<" ", "A", TAB>> }

InputsUI == { <<" ", " ">>, <<" ", "a", TAB>> }

NextUI ==
    \/ RunLoadEffect
    \/ RunPersistEffect
    \/ Render
    \/ Reload
    \/ Tick
    \/ \E s \in InputsUI : onChangeInput(s)
    \/ \E s \in InputsUI : onChangeEditInput(s)
    \/ handleAddTask
    \/ onClickEdit
    \/ handleUpdateTask
    \/ \E id \in IdDomain : handleDeleteTask(id)
    \/ \E id \in IdDomain : handleToggleComplete(id)
    \/ handleKey
    \/ \E f \in Filters : handleFilterChange(f)
    \/ \E s \in SearchInputsUI : handleSearchChange(s)

SpecUI == Init /\ [][NextUI]_vars

(* The same program over a store whose writes can fail *)
NextQuota == Next \/ FailPersistEffect

SpecQuota == Init /\ [][NextQuota]_vars

----------------------------------------------------------------------------
(* Properties *)

(* s is neither empty nor made of whitespace only *)
HasVisibleChar(s) == \E k \in 1..Len(s) : s[k] \notin Whitespace

(* s is raw without the whitespace around it *)
IsTrimOf(raw, s) ==
    /\ s # <<>> => (s[1] \notin Whitespace /\ s[Len(s)] \notin Whitespace)
    /\ \E a \in 0..(Len(raw) - Len(s)) :
          /\ SubSeq(raw, a + 1, a + Len(s)) = s
          /\ \A k \in 1..Len(raw) :
                (k <= a \/ k > a + Len(s)) => raw[k] \in Whitespace

(* C1: in every reachable state no two tasks of the collection have the    *)
(* same id, also after two creates at the same clock tick.                  *)
C1_UniqueIds ==
    \A i, j \in 1..Len(Collection) :
        i # j => Collection[i].id # Collection[j].id

(* C2: no interleaved or lost updates: the collection always equals the    *)
(* operations of the events so far applied one after another in event      *)
(* order, and once a cycle is complete the rendered tasks equal it too.     *)
C2_SequentialOrder ==
    /\ Collection = expected
    /\ Idle => tasks = expected

C2_Witness ==
    /\ Idle
    /\ Len(tasks) = 2
    /\ tasks[1].id = 9 /\ tasks[1].text = <<"a">> /\ ~tasks[1].completed
    /\ tasks[2].id > 9 /\ tasks[2].completed

(* C3: once a mutation-and-persist cycle has completed, the store holds    *)
(* the serialization of the current collection (every change of the        *)
(* rendered collection leaves a write of it scheduled), and every write    *)
(* stores a value that deserializes to exactly the collection written.     *)
C3_PersistedAfterCycle ==
    /\ []((error = "none" /\ effects = <<>>) =>
             (store # Absent /\ store[1] = JSONstringify(tasks)))
    /\ [][RunPersistEffect =>
             LET r == JSONparse(store'[1]) IN r.ok /\ r.value = tasks]_vars

C3_Witness ==
    /\ Idle
    /\ Len(tasks) = 2
    /\ tasks[2].id = now
    /\ tasks[2].text = <<"A", TAB, QUOTE, BSLASH>>
    /\ store # Absent /\ JSONparse(store[1]).value = tasks

(* C4: whenever the store value is absent or unparsable, load yields an    *)
(* empty collection and raises no error.                                    *)
C4_LoadYieldsEmpty ==
    ( /\ (effects = <<>> \/ Head(effects) # "load")
      /\ (store = Absent \/ store[1] = <<>> \/ ~JSONparse(store[1]).ok) )
    => (error = "none" /\ Collection = <<>>)

(* C5: round trip: for every valid collection T the program comes to hold, *)
(* loading what persist wrote for T gives T back: the same tasks, field    *)
(* values and order.                                                        *)
C5_RoundTrip ==
    [][Collection' # Collection =>
           LET T == Collection'
               r == load(persist(T))
           IN  r.ok /\ r.value = T]_vars

C5_Witness ==
    /\ tasks = <<>>
    /\ effects = <<"persist">>
    /\ pending # <<>>
    /\ Len(pending[1]) = 2
    /\ pending[1][1].id > 9
    /\ pending[1][1].text = <<"A", TAB, QUOTE, BSLASH>>
    /\ pending[1][1].completed
    /\ ~pending[1][2].completed

(* C6: before and after every operation the text of every task in the      *)
(* collection is neither empty nor whitespace-only.                         *)
C6_TextNeverBlank ==
    /\ \A i \in 1..Len(Collection) : HasVisibleChar(Collection[i].text)
    /\ \A i \in 1..Len(tasks) : HasVisibleChar(tasks[i].text)

C6_Witness ==
    /\ Idle
    /\ input = <<" ", " ">>
    /\ Len(tasks) = 2
    /\ tasks[1].id > 9 /\ tasks[2].id > 9
    /\ tasks[1].text = <<"a">>
    /\ tasks[2].text = <<"A", TAB, QUOTE, BSLASH>>

(* C7: for every raw input whose trimmed value s is non-empty, create       *)
(* appends exactly one task, with text s (no surrounding whitespace) and    *)
(* completed = FALSE, and leaves every earlier task unchanged in place.     *)
C7_CreateAppendsOne ==
    [][ (handleAddTask /\ HasVisibleChar(input)) =>
          /\ Len(Collection') = Len(Collection) + 1
          /\ SubSeq(Collection', 1, Len(Collection)) = Collection
          /\ IsTrimOf(input, Collection'[Len(Collection')].text)
          /\ Collection'[Len(Collection')].completed = FALSE ]_vars

C7_Witness ==
    /\ pending # <<>>
    /\ tasks # <<>>
    /\ Len(pending[1]) = Len(tasks) + 1
    /\ SubSeq(pending[1], 1, Len(tasks)) = tasks
    /\ pending[1][Len(pending[1])] = [id |-> now, text |-> <<"a">>, completed |-> FALSE]
    /\ input = <<>>

(* C8: for every empty or whitespace-only input, create leaves the         *)
(* collection unchanged in size and contents and raises no error.           *)
C8_BlankCreateNoOp ==
    [][ (handleAddTask /\ ~HasVisibleChar(input)) =>
          /\ Collection' = Collection
          /\ tasks' = tasks
          /\ pending' = <<>>
          /\ error' = "none" ]_vars

C8_Witness ==
    /\ Idle
    /\ input = <<" ", " ">>
    /\ tasks = <<>>
    /\ store = <<JSONstringify(<<>>)>>

(* C9: rename with an input whose trimmed value is empty is a              *)
(* cancellation: every task keeps its text, no task is removed or changed,  *)
(* and the edit session ends.                                               *)
C9_BlankRenameCancels ==
    [][ (handleUpdateTask /\ ~HasVisibleChar(editInput)) =>
          /\ Collection' = Collection
          /\ tasks' = tasks
          /\ pending' = <<>>
          /\ editingId' = Null
          /\ editInput' = <<>> ]_vars

C9_Witness ==
    /\ Idle
    /\ editingId # Null
    /\ editInput = <<" ", " ">>
    /\ \E i \in 1..Len(tasks) : tasks[i].id = editingId /\ tasks[i].text = <<"a">>

(* C10: rename with an input whose trimmed value is non-empty replaces the *)
(* text of the task with the matching id by the trimmed value; its id and   *)
(* completed are unchanged and every other task is unchanged.               *)
C10_RenameReplacesText ==
    [][ (handleUpdateTask /\ HasVisibleChar(editInput)) =>
          /\ Len(Collection') = Len(Collection)
          /\ \A i \in 1..Len(Collection) :
                IF Collection[i].id = editingId
                THEN /\ Collection'[i].id = Collection[i].id
                     /\ Collection'[i].completed = Collection[i].completed
                     /\ IsTrimOf(editInput, Collection'[i].text)
                ELSE Collection'[i] = Collection[i] ]_vars

C10_Witness ==
    /\ pending # <<>>
    /\ editingId = Null
    /\ Len(tasks) = 2 /\ Len(pending[1]) = 2
    /\ pending[1][1] = tasks[1]
    /\ tasks[1].id # tasks[2].id
    /\ tasks[2].text = <<"A", TAB, QUOTE, BSLASH>>
    /\ pending[1][2] = [tasks[2] EXCEPT !.text = <<"a">>]
    /\ tasks[2].completed

(* C11: toggleComplete(id) flips completed of the task with the matching   *)
(* id and changes nothing else, and toggling the same id once more gives    *)
(* the collection it started from.                                          *)
C11_ToggleFlipsAndUndoes ==
    [][ \A id \in IdDomain :
          handleToggleComplete(id) =>
            /\ Len(Collection') = Len(Collection)
            /\ \A i \in 1..Len(Collection) :
                  /\ Collection'[i].id = Collection[i].id
                  /\ Collection'[i].text = Collection[i].text
                  /\ Collection'[i].completed =
                        IF Collection[i].id = id
                        THEN ~Collection[i].completed
                        ELSE Collection[i].completed
            /\ ToggledTasks(Collection', id) = Collection ]_vars

C11_Witness ==
    /\ pending # <<>>
    /\ Len(tasks) = 2 /\ Len(pending[1]) = 2
    /\ tasks[1].id # tasks[2].id
    /\ pending[1][1] = tasks[1]
    /\ tasks[2].completed
    /\ pending[1][2] = [tasks[2] EXCEPT !.completed = FALSE]

(* C12: delete(id) on an id present in the collection removes the task     *)
(* with the matching id and no other: the size decreases by exactly one     *)
(* and the remaining tasks keep their field values and relative order.      *)
C12_DeleteRemovesOne ==
    [][ \A id \in IdDomain :
          (handleDeleteTask(id) /\ \E i \in 1..Len(Collection) : Collection[i].id = id) =>
            /\ Len(Collection') = Len(Collection) - 1
            /\ \E k \in 1..Len(Collection) :
                  /\ Collection[k].id = id
                  /\ Collection' = SubSeq(Collection, 1, k - 1)
                                      \o SubSeq(Collection, k + 1, Len(Collection)) ]_vars

(* C13: an operation that targets an id not present in the collection is   *)
(* a silent no-op: rename, toggleComplete and delete leave the collection   *)
(* unchanged and raise no error (so a second delete(id) changes nothing).   *)
C13_AbsentIdNoOp ==
    [][ /\ \A id \in IdDomain :
             ( /\ handleDeleteTask(id) \/ handleToggleComplete(id)
               /\ \A i \in 1..Len(Collection) : Collection[i].id # id )
             => (Collection' = Collection /\ error' = "none")
        /\ ( /\ handleUpdateTask
             /\ \A i \in 1..Len(Collection) : Collection[i].id # editingId )
           => (Collection' = Collection /\ error' = "none") ]_vars

C13_Witness ==
    /\ pending # <<>>
    /\ Len(tasks) = 1
    /\ pending[1] = tasks
    /\ store = persist(tasks)
    /\ tasks[1].id = 10
    /\ editingId = 10
    /\ expected = tasks

(* the ids of a collection, in order *)
IdsOf(c) == [i \in 1..Len(c) |-> c[i].id]

(* r is c with some of its tasks left out, the others in the same order *)
RECURSIVE IsSubsequence(_, _)
IsSubsequence(r, c) ==
    IF r = <<>> THEN TRUE
    ELSE IF c = <<>> THEN FALSE
    ELSE IF Head(r) = Head(c)
         THEN IsSubsequence(Tail(r), Tail(c)) \/ IsSubsequence(r, Tail(c))
    ELSE IsSubsequence(r, Tail(c))

(* C14: the collection lists the surviving tasks in the order in which     *)
(* they were created: create puts the new task after all others, rename     *)
(* and toggleComplete never change the sequence of ids, and delete leaves   *)
(* the remaining tasks in their relative order.                             *)
C14_InsertionOrderKept ==
    [][ /\ handleAddTask => SubSeq(Collection', 1, Len(Collection)) = Collection
        /\ handleUpdateTask => IdsOf(Collection') = IdsOf(Collection)
        /\ \A id \in IdDomain :
              /\ handleToggleComplete(id) => IdsOf(Collection') = IdsOf(Collection)
              /\ handleDeleteTask(id) => IsSubsequence(Collection', Collection) ]_vars

C14_Witness ==
    /\ pending # <<>>
    /\ Len(tasks) = 2
    /\ tasks[1].id < tasks[2].id
    /\ pending[1] = <<tasks[2]>>

(* some operation of the task list can be carried out *)
Usable ==
    ENABLED ( \/ handleAddTask
              \/ handleUpdateTask
              \/ \E id \in IdDomain : handleDeleteTask(id)
              \/ \E id \in IdDomain : handleToggleComplete(id) )

(* C15: a failure of the store write does not roll back the in-memory      *)
(* mutation: after a mutation whose persist fails, the collection still     *)
(* holds the mutated value and remains usable for further operations.       *)
(* (During startup the failing write either finds tasks empty or the store  *)
(* holding "[]", so the write that failed here followed a mutation.)        *)
C15_WriteFailureTolerated ==
    ( /\ error = "QuotaExceededError"
      /\ tasks # <<>>
      /\ store \notin {persist(tasks), persist(<<>>)} )
    => (tasks = expected /\ Usable)

(* C16: with empty search text the results of mode active and of mode      *)
(* completed partition the collection (every task is in exactly one of     *)
(* the two, and nothing else is in them), and the result of mode all is    *)
(* the collection in the same order; the list on screen is the result of   *)
(* the selected mode.                                                      *)
C16_ModesPartition ==
    search = <<>> =>
        LET act  == visible(tasks, "active", search)
            comp == visible(tasks, "completed", search)
            all  == visible(tasks, "all", search)
        IN  /\ all = tasks
            /\ Len(act) + Len(comp) = Len(tasks)
            /\ \A k \in 1..Len(act) : ~act[k].completed
            /\ \A k \in 1..Len(comp) : comp[k].completed
            /\ \A i \in 1..Len(tasks) :
                   (\E k \in 1..Len(act) : act[k] = tasks[i])
                       # (\E k \in 1..Len(comp) : comp[k] = tasks[i])
            /\ filteredTasks = CASE filter = "active" -> act
                                 [] filter = "completed" -> comp
                                 [] OTHER -> all

C16_Witness ==
    /\ search = <<>>
    /\ filter = "completed"
    /\ Len(tasks) = 2
    /\ ~tasks[1].completed
    /\ tasks[2].completed
    /\ filteredTasks = <<tasks[2]>>

(* The mode predicate and the search predicate, written from their meaning *)
ModeAccepts(t, f) ==
    \/ f = "all"
    \/ f = "active" /\ ~t.completed
    \/ f = "completed" /\ t.completed

SearchAccepts(t, s) ==
    LET q   == toLowerCase(trim(s))
        txt == toLowerCase(t.text)
    IN  \/ q = <<>>
        \/ \E off \in 0..(Len(txt) - Len(q)) :
               \A k \in 1..Len(q) : txt[off + k] = q[k]

(* C17: for every collection, mode and search text the visible list is     *)
(* the subsequence of the collection, in collection order, of the tasks    *)
(* that satisfy both the mode predicate and the search predicate (trimmed  *)
(* search empty, or the lower-cased text contains the trimmed lower-cased  *)
(* search as a substring).                                                 *)
C17_VisibleIsFilteredSubsequence ==
    filteredTasks =
        SelectSeq(tasks, LAMBDA t : ModeAccepts(t, filter) /\ SearchAccepts(t, search))

C17_Witness ==
    /\ filter = "completed"
    /\ search = <<" ", "A", TAB>>
    /\ Len(tasks) = 2
    /\ tasks[1].completed /\ tasks[1].text = <<"b", "A">>
    /\ tasks[2].completed /\ tasks[2].text = <<"a">>
    /\ filteredTasks = tasks

(* C18: in every reachable state the text of every task of the collection  *)
(* is a trimmed string (no whitespace at either end) of at most 120        *)
(* characters.                                                             *)
C18_TextTrimmedAndBounded ==
    \A i \in 1..Len(Collection) :
        LET text == Collection[i].text
        IN  /\ Len(text) <= MaxLength
            /\ text # <<>> => (text[1] \notin Whitespace /\ text[Len(text)] \notin Whitespace)

C18_Witness ==
    /\ Len(tasks) = 2
    /\ tasks[1].text = <<"b">> \o Long(MaxLength - 1)
    /\ tasks[2].text = Long(MaxLength - 2)
    /\ editingId = tasks[2].id
    /\ input = <<>>

(* C19: startup never loses saved tasks: until the first user mutation,    *)
(* every write of the persist effect leaves in the store a value that      *)
(* deserializes to the collection the previous session saved; a non-empty  *)
(* saved collection is never overwritten with an empty one.  (The persist  *)
(* effect runs with a state update still queued only during startup: the   *)
(* load effect queued the saved collection and no handler has run.)        *)
C19_StartupKeepsSaved ==
    [][ (RunPersistEffect /\ pending # <<>>)
            => (store' # Absent /\ JSONparse(store'[1]).value = pending[1]) ]_vars

(* C20: whenever an edit session is open (editingId is not null) a task    *)
(* with that id exists in the collection, edits being started on tasks the *)
(* screen shows; deleting the task being edited closes the edit session    *)
(* and clears the edit input, deleting any other task leaves the edit      *)
(* session unchanged.                                                      *)
C20_EditSessionOnExistingTask ==
    [][ /\ editingId' # Null => \E i \in 1..Len(Collection') : Collection'[i].id = editingId'
        /\ \A id \in IdDomain :
               handleDeleteTask(id) =>
                   IF id = editingId
                   THEN editingId' = Null /\ editInput' = <<>>
                   ELSE UNCHANGED <<editingId, editInput>> ]_vars

C20_Witness ==
    /\ editingId # Null
    /\ editInput # <<>>
    /\ pending # <<>>
    /\ Len(tasks) = 2
    /\ Len(pending[1]) = 1
    /\ pending[1][1].id = editingId

====
